---- MODULE Spec2Model ----
(***************************************************************************)
(* Model of boundary_iou/utils/boundary_utils.py:                          *)
(*   mask_to_boundary                                  (SpecMask)          *)
(*   augment_annotations_with_boundary_single_core,                        *)
(*   add_boundary_multi_core                           (Spec, SpecLive)    *)
(*   coco_add_boundaries_and_save_as_annotation_file   (SpecFile)          *)
(* Arrays are sequences of rows; index 1 of the model is index 0 of numpy. *)
(***************************************************************************)
EXTENDS Integers, Sequences, FiniteSets, TLC

\* ------------------------------------------------------------------ bounds
MaxH == 2           \* rows and columns of the masks enumerated in full
MaxW == 3
MaxAnns == 3        \* annotations in a dataset (Spec)
MaxCpu == 3         \* cpu_num and multiprocessing.cpu_count()
MaxCalls == 2       \* calls of add_boundary_multi_core on one dataset
MaxFileAnns == 2    \* annotations in an annotation file (SpecFile)
MaxId == 2          \* annotation ids in an annotation file
MaxNameLen == 3     \* characters of a file name
MaxAddonLen == 2    \* characters of stem_addon
SampleSide == 5     \* side of the square sample masks

\* dilation_ratio is the rational RatioNum / RatioDen
RatioDen == 100
DefaultRatio == 2
Ratios == {-50, 0, DefaultRatio, 30, 40, 60, 100}

\* ------------------------------------------------------- array primitives
Height(m) == Len(m)
Width(m) == IF Len(m) = 0 THEN 0 ELSE Len(m[1])
Shape(m) == <<Height(m), Width(m)>>

Min2(a, b) == IF a <= b THEN a ELSE b

SetMin(S) == CHOOSE x \in S : \A y \in S : x <= y

Rows(h, w) == [1..h -> [1..w -> {0, 1}]]

Full(h, w) == [i \in 1..h |-> [j \in 1..w |-> 1]]

Zeros(h, w) == [i \in 1..h |-> [j \in 1..w |-> 0]]

\* an h x w mask whose foreground is the rows r1..r2 of the columns c1..c2
Rect(h, w, r1, r2, c1, c2) ==
    [i \in 1..h |->
        [j \in 1..w |->
            IF r1 <= i /\ i <= r2 /\ c1 <= j /\ j <= c2 THEN 1 ELSE 0]]

WithHole(m, i, j) == [m EXCEPT ![i][j] = 0]

\* masks large enough for foreground to survive an erosion: the rectangles
\* and the one-pixel holes of a square, and the 10 x 10 masks
SampleMasks ==
    {Rect(SampleSide, SampleSide, r1, r2, c1, c2) :
        r1 \in 1..SampleSide, r2 \in 1..SampleSide,
        c1 \in 1..SampleSide, c2 \in 1..SampleSide}
    \cup {WithHole(Full(SampleSide, SampleSide), i, j) :
            i \in 1..SampleSide, j \in 1..SampleSide}
    \cup {Full(10, 10), Zeros(10, 10)}
    \cup {WithHole(Full(10, 10), i, j) : i \in 1..10, j \in 1..10}

\* the binary masks mask_to_boundary is called with
Masks == UNION {Rows(h, w) : h \in 1..MaxH, w \in 1..MaxW} \cup SampleMasks

\* uint8 arithmetic of numpy: mask - mask_erode wraps modulo 2^8
Uint8Sub(a, b) == (a - b) % 256

\* ---------------------------------------------------- mask_to_boundary
\* line 22: h ** 2 + w ** 2, the square of img_diag
DiagSq(h, w) == h * h + w * w

\* round(num/RatioDen * sqrt(s)) for num >= 0: the integer k nearest to the
\* product, a tie going to the even neighbour (Python's round).  k is the
\* nearest integer iff (2k-1)^2 * den^2 <= 4 * num^2 * s <= (2k+1)^2 * den^2.
\* sqrt(h^2 + w^2) <= h + w bounds the candidates.
RoundProd(num, h, w) ==
    LET lhs == 4 * num * num * DiagSq(h, w)
        d2 == RatioDen * RatioDen
        cand == {k \in 0..((num * (h + w)) \div RatioDen + 1) :
                    /\ (k = 0 \/ (2 * k - 1) * (2 * k - 1) * d2 <= lhs)
                    /\ lhs <= (2 * k + 1) * (2 * k + 1) * d2}
    IN  IF Cardinality(cand) = 1 THEN CHOOSE k \in cand : TRUE
        ELSE CHOOSE k \in cand : k % 2 = 0

\* line 23: int(round(dilation_ratio * img_diag)); round is odd, a negative
\* ratio gives the negated rounding of its absolute value
Rounded(m, num) ==
    IF num < 0
    THEN 0 - RoundProd(0 - num, Height(m), Width(m))
    ELSE RoundProd(num, Height(m), Width(m))

\* variant: the rounded value as it is, lines 24-25 left out
Unclamped(m, num) == Rounded(m, num)

\* lines 21-25: dilation = int(round(dilation_ratio * img_diag)), at least 1
Dilation(m, num) ==
    IF Rounded(m, num) < 1 THEN 1 ELSE Rounded(m, num)

\* variant: the border made of foreground, value=1
copyMakeBorderOnes(m) ==
    LET h == Height(m)
        w == Width(m)
    IN  [i \in 1..(h + 2) |->
            [j \in 1..(w + 2) |->
                IF i = 1 \/ i = h + 2 \/ j = 1 \/ j = w + 2
                THEN 1
                ELSE m[i - 1][j - 1]]]

\* line 27: cv2.copyMakeBorder(mask, 1, 1, 1, 1, BORDER_CONSTANT, value=0)
copyMakeBorder(m) ==
    LET h == Height(m)
        w == Width(m)
    IN  [i \in 1..(h + 2) |->
            [j \in 1..(w + 2) |->
                IF i = 1 \/ i = h + 2 \/ j = 1 \/ j = w + 2
                THEN 0
                ELSE m[i - 1][j - 1]]]

\* variant: one pass with the cross-shaped kernel (cv2.MORPH_CROSS)
ErodeCross(m) ==
    LET h == Height(m)
        w == Width(m)
    IN  [i \in 1..h |->
            [j \in 1..w |->
                SetMin({m[i][j]}
                       \cup {m[a][j] : a \in {x \in {i - 1, i + 1} : x >= 1 /\ x <= h}}
                       \cup {m[i][b] : b \in {y \in {j - 1, j + 1} : y >= 1 /\ y <= w}})]]

\* variant: one pass of cv2.dilate, the maximum over the window
Dilate3(m) ==
    LET h == Height(m)
        w == Width(m)
    IN  [i \in 1..h |->
            [j \in 1..w |->
                0 - SetMin({0 - m[a][b] :
                                a \in {x \in (i - 1)..(i + 1) : x >= 1 /\ x <= h},
                                b \in {y \in (j - 1)..(j + 1) : y >= 1 /\ y <= w}})]]

\* One pass of cv2.erode with the 3x3 kernel of ones: the minimum over the
\* window; positions outside the array do not take part (the default border
\* value of erode is the maximum).
Erode3(m) ==
    LET h == Height(m)
        w == Width(m)
    IN  [i \in 1..h |->
            [j \in 1..w |->
                SetMin({m[a][b] : a \in {x \in (i - 1)..(i + 1) : x >= 1 /\ x <= h},
                                  b \in {y \in (j - 1)..(j + 1) : y >= 1 /\ y <= w}})]]

\* variant: a single pass whatever the iteration count
erodeOnce(m, iterations) == Erode3(m)

\* line 29: cv2.erode(new_mask, kernel, iterations=dilation)
RECURSIVE erode(_, _)
erode(m, iterations) ==
    IF iterations <= 0 THEN m ELSE erode(Erode3(m), iterations - 1)

\* line 30: new_mask_erode[1 : h + 1, 1 : w + 1]; a numpy slice a[lo:hi]
\* holds the 0-based indices lo..hi-1, the 1-based positions lo+1..hi
Slice(s, lo, hi) == SubSeq(s, Min2(lo, Len(s)) + 1, Min2(hi, Len(s)))

\* variant: the slice taken from index 0, [0 : h, 0 : w]
CropFromZero(e, h, w) ==
    LET rows == Slice(e, 0, h)
    IN  [i \in 1..Len(rows) |-> Slice(rows[i], 0, w)]

Crop(e, h, w) ==
    LET rows == Slice(e, 1, h + 1)
    IN  [i \in 1..Len(rows) |-> Slice(rows[i], 1, w + 1)]

\* line 32: mask - mask_erode (elementwise, uint8)
Subtract(m, e) ==
    [i \in 1..Height(m) |-> [j \in 1..Width(m) |-> Uint8Sub(m[i][j], e[i][j])]]

\* lines 14-32 as one function
mask_to_boundary(m, num) ==
    Subtract(m, Crop(erode(copyMakeBorder(m), Dilation(m, num)), Height(m), Width(m)))


\* --------------------------------------------------------- annotations
None == "None"

\* a segmentation whose mask is not 2-D: `h, w = mask.shape` raises on it
BadSeg == <<>>

\* a record-valued variable that holds nothing yet
Unset == [unset |-> TRUE]

\* d[key] = v on a dict: the key is added when d has none
SetItem(d, key, v) == [f \in DOMAIN d \cup {key} |-> IF f = key THEN v ELSE d[f]]

HasKey(d, key) == key \in DOMAIN d

GoodSegmentations == {<<<<1, 1>>, <<1, 0>>>>, <<<<0, 1, 1>>>>}

Segmentations == GoodSegmentations \cup {BadSeg}

\* coco.annToMask: the Mask Provider, the mask the segmentation stands for
annToMask(ann) == ann.segmentation

\* the mask in column-major order (order="F")
Flatten(m) ==
    LET h == Height(m)
    IN  [k \in 1..(h * Width(m)) |-> m[((k - 1) % h) + 1][((k - 1) \div h) + 1]]

\* run lengths of pycocotools' rleEncode: from position i, n pixels of value v
\* counted so far; the first run counts zeros
RECURSIVE rleEncode(_, _, _, _)
rleEncode(flat, i, v, n) ==
    IF i > Len(flat) THEN <<n>>
    ELSE IF flat[i] = v THEN rleEncode(flat, i + 1, v, n + 1)
    ELSE <<n>> \o rleEncode(flat, i + 1, flat[i], 1)

\* lines 44-45: mask_utils.encode(...)[0]; counts is a bytes object
encode(m) ==
    [size |-> Shape(m), counts |-> [type |-> "bytes", runs |-> rleEncode(Flatten(m), 1, 0, 0)]]

\* line 120: counts.decode("utf-8"): the same payload as a str
decode(counts) == [counts EXCEPT !.type = "str"]

\* lines 40-45 for each mask of the model at the default dilation_ratio
\* (computed once)
DefaultBoundary ==
    [m \in GoodSegmentations |-> encode(mask_to_boundary(m, DefaultRatio))]

\* lines 40-45 for one annotation that has a mask: the value of ann['boundary']
BoundaryOf(ann, ratio) ==
    IF ratio = DefaultRatio /\ annToMask(ann) \in GoodSegmentations
    THEN DefaultBoundary[annToMask(ann)]
    ELSE encode(mask_to_boundary(annToMask(ann), ratio))

\* lines 36-48 on a whole list: the list returned, or the exception
RECURSIVE augment_annotations_with_boundary_single_core(_, _)
augment_annotations_with_boundary_single_core(annotations, ratio) ==
    IF annotations = <<>> THEN [raised |-> FALSE, new_annotations |-> <<>>]
    ELSE IF Head(annotations).segmentation = BadSeg
    THEN [raised |-> TRUE, new_annotations |-> <<>>]
    ELSE LET rest == augment_annotations_with_boundary_single_core(Tail(annotations), ratio)
             ann == SetItem(Head(annotations), "boundary", BoundaryOf(Head(annotations), ratio))
         IN  [raised |-> rest.raised,
              new_annotations |-> IF rest.raised THEN <<>> ELSE <<ann>> \o rest.new_annotations]

\* line 80: cpu_num = min(cpu_num, multiprocessing.cpu_count())
ClampCpu(requested, available) == Min2(requested, available)

\* np.array_split(ary, n): n contiguous sections, the first len(ary) % n of
\* them one element longer; div_points are the cumulative section sizes
\* variant: the longer sections last
DivPointExtrasLast(total, n, k) ==
    k * (total \div n) + (IF k > n - (total % n) THEN k - (n - (total % n)) ELSE 0)

DivPoint(total, n, k) == k * (total \div n) + Min2(k, total % n)

\* variant: strided sections, section k holding the elements k, k + n, ...
SplitRoundRobin(ary, n) ==
    [k \in 1..n |->
        [j \in 1..Cardinality({i \in 1..Len(ary) : (i - 1) % n = k - 1}) |->
            ary[k + (j - 1) * n]]]

array_split(ary, n) ==
    [k \in 1..n |-> Slice(ary, DivPoint(Len(ary), n, k - 1), DivPoint(Len(ary), n, k))]

\* coco.createIndex(): anns[ann['id']] = ann for every annotation in order;
\* a dict keeps the position of a key's first insertion and its last value
DictPut(d, k, v) ==
    IF \E i \in DOMAIN d : d[i].key = k
    THEN [i \in DOMAIN d |-> IF d[i].key = k THEN [key |-> k, value |-> v] ELSE d[i]]
    ELSE Append(d, [key |-> k, value |-> v])

RECURSIVE IndexFrom(_, _)
IndexFrom(d, annotations) ==
    IF annotations = <<>> THEN d
    ELSE IndexFrom(DictPut(d, Head(annotations).id, Head(annotations)), Tail(annotations))

createIndex(annotations) == IndexFrom(<<>>, annotations)

DictValues(d) == [i \in DOMAIN d |-> d[i].value]

\* variant: the test of line 74 never true
NeverFound(flag) == FALSE

\* line 74: coco.get_boundary == True
FoundExistingBoundaries(flag) == flag = TRUE

\* variant: workers that share the caller's dicts (threads)
SharedMemoryWrite(caller_annotations, pos, b) ==
    [caller_annotations EXCEPT ![pos] = SetItem(@, "boundary", b)]

\* lines 44 and 89-90: the worker writes ann['boundary'] into its own
\* unpickled copy of the shard; the caller's list is what it was
CallerAfterWorkerWrite(caller_annotations, pos, b) == caller_annotations

\* variant: the results taken as they become ready, the last task first
AnyFinished(gathered, tasks, n) ==
    LET ready == {k \in DOMAIN tasks : tasks[k].state # "pending" /\ k \notin gathered}
    IN  IF ready = {} THEN n + 1 ELSE CHOOSE k \in ready : \A j \in ready : j <= k

\* lines 94-95: `for p in processes: p.get()`, the tasks in submission order
NextToGather(gathered, tasks, n) == n + 1

\* lines 93-95 done: the lists extended one after the other
RECURSIVE Concat(_)
Concat(seqs) == IF seqs = <<>> THEN <<>> ELSE Head(seqs) \o Concat(Tail(seqs))

\* variant: the list is not assigned (the workers' writes taken to be in place)
Line100Forgotten(c, new_annotations) == c

\* variant: the flag set together with the annotations, before the index
Line100SetsFlag(c, new_annotations) ==
    [c EXCEPT !.annotations = new_annotations, !.get_boundary = TRUE]

\* line 100: coco.dataset["annotations"] = new_annotations
Line100(c, new_annotations) == [c EXCEPT !.annotations = new_annotations]

\* variant: the index left as it is
Line101Skipped(c) == c

\* line 101: coco.createIndex()
Line101(c) == [c EXCEPT !.anns = createIndex(c.annotations)]

\* variant: the flag left as it is
Line102Forgotten(c) == c

\* line 102: coco.get_boundary = True
Line102(c) == [c EXCEPT !.get_boundary = TRUE]

\* lines 73-103 as one function of the dataset: what the call leaves, or
\* that it raised (a worker's exception; the dataset has its capabilities)
add_boundary_multi_core(c, requested, available) ==
    IF FoundExistingBoundaries(c.get_boundary) THEN [raised |-> FALSE, coco |-> c]
    ELSE LET shards == array_split(c.annotations, ClampCpu(requested, available))
             results == [k \in DOMAIN shards |->
                            augment_annotations_with_boundary_single_core(shards[k], DefaultRatio)]
         IN  IF \E k \in DOMAIN results : results[k].raised
             THEN [raised |-> TRUE, coco |-> c]
             ELSE [raised |-> FALSE,
                   coco |-> Line102(Line101(Line100(c,
                                Concat([k \in DOMAIN results |-> results[k].new_annotations]))))]

\* ------------------------------------------------------------ file names
Chars == {"a", "."}

AddonChars == {"_", "b", "."}

SeqsUpTo(S, n) == UNION {[1..k -> S] : k \in 0..n}

\* the names a resolved path can end in
Names == SeqsUpTo(Chars, MaxNameLen) \ {<<>>, <<".">>, <<".", ".">>}

Addons == SeqsUpTo(AddonChars, MaxAddonLen)

\* name.rfind('.') as a position of the model (0 when there is no dot)
RFindDot(name) ==
    IF \E i \in DOMAIN name : name[i] = "."
    THEN CHOOSE i \in DOMAIN name : name[i] = "." /\ \A j \in (i + 1)..Len(name) : name[j] # "."
    ELSE 0

\* pathlib: the suffix starts at the last dot unless that dot is the first
\* or the last character of the name
HasSuffix(name) == 1 < RFindDot(name) /\ RFindDot(name) < Len(name)

PathSuffix(name) ==
    IF HasSuffix(name) THEN SubSeq(name, RFindDot(name), Len(name)) ELSE <<>>

PathStem(name) ==
    IF HasSuffix(name) THEN SubSeq(name, 1, RFindDot(name) - 1) ELSE name

\* line 123
NewAnnotationFile(path, addon) ==
    [parent |-> path.parent, name |-> PathStem(path.name) \o addon \o PathSuffix(path.name)]

\* line 111: COCO(annotation_file): the dataset of the file, indexed, flag false
COCO(doc) ==
    [annotations |-> doc.annotations, anns |-> createIndex(doc.annotations),
     get_boundary |-> FALSE]

\* line 120 on one annotation
DecodeCounts(a) == SetItem(a, "boundary", [a.boundary EXCEPT !.counts = decode(@)])

\* lines 118-120: anns_b
AnnsB(c) == [i \in DOMAIN c.anns |-> DecodeCounts(c.anns[i].value)]

\* lines 119-120 change the dicts in place: those of coco.anns, which are
\* the dicts of coco.dataset["annotations"] that createIndex kept (for each
\* id the last one)
AfterDecode(c) ==
    [c EXCEPT
        !.anns = [i \in DOMAIN @ |-> [key |-> @[i].key, value |-> DecodeCounts(@[i].value)]],
        !.annotations =
            [i \in DOMAIN @ |->
                IF \E j \in (i + 1)..Len(@) : @[j].id = @[i].id
                THEN @[i]
                ELSE DecodeCounts(@[i])]]

\* ------------------------------------------------------------------ state
VARIABLES
    mask,            \* mask_to_boundary: the argument mask
    dilation_ratio,  \* mask_to_boundary: the numerator of dilation_ratio
    mpc,             \* mask_to_boundary: the line reached
    dilation,        \* line 23-25
    new_mask,        \* line 27
    new_mask_erode,  \* line 29
    mask_erode,      \* line 30
    boundary,        \* line 32, the value returned
    coco,            \* the dataset: dataset["annotations"], anns, get_boundary
    hasAnnToMask,    \* coco has an attribute annToMask
    hasCreateIndex,  \* coco has an attribute createIndex
    cpu_num,         \* the argument cpu_num
    cpu_count,       \* multiprocessing.cpu_count()
    pc,              \* add_boundary_multi_core: the line reached, or how it ended
    exc,             \* what raised, when pc = "raised"
    annotations_split,  \* line 83
    processes,       \* line 86: the tasks submitted, each with its worker's state
    new_annotations, \* line 93
    gathered,        \* the tasks whose p.get() has returned, in that order
    first_finished,  \* the task whose worker finished first (0: none has)
    spawned,         \* worker processes started so far
    maskCalls,       \* calls of ann_to_mask so far
    calls,           \* calls of add_boundary_multi_core so far
    atCall,          \* the dataset and the counters when the last call began
    input,           \* the dataset as constructed
    observed,        \* what a concurrent reader of coco last saw
    fpc,             \* coco_add_boundaries_and_save_as_annotation_file: the line reached
    annotation_file, \* line 110: the resolved path
    stem_addon,      \* the argument stem_addon
    files,           \* the file system: the documents by path
    coco_json,       \* line 115
    new_annotation_file  \* line 123

maskVars == <<mask, dilation_ratio, mpc, dilation, new_mask, new_mask_erode,
              mask_erode, boundary>>

envVars == <<hasAnnToMask, hasCreateIndex, cpu_num, cpu_count, input>>

runVars == <<annotations_split, processes, new_annotations, gathered, first_finished>>

pipeVars == <<coco, pc, exc, runVars, spawned, maskCalls, calls, atCall, observed, envVars>>

fileVars == <<fpc, annotation_file, stem_addon, files, coco_json, new_annotation_file>>

vars == <<maskVars, pipeVars, fileVars>>

FileIdle ==
    /\ fpc = "unused"
    /\ annotation_file = Unset
    /\ stem_addon = <<>>
    /\ files = <<>>
    /\ coco_json = Unset
    /\ new_annotation_file = Unset

MaskIdle ==
    /\ mask = None
    /\ dilation_ratio = None
    /\ mpc = "unused"
    /\ dilation = None
    /\ new_mask = None
    /\ new_mask_erode = None
    /\ mask_erode = None
    /\ boundary = None

PipeIdle ==
    /\ coco = Unset
    /\ hasAnnToMask = TRUE
    /\ hasCreateIndex = TRUE
    /\ cpu_num = 16
    /\ cpu_count = 1
    /\ pc = "unused"
    /\ exc = None
    /\ annotations_split = <<>>
    /\ processes = <<>>
    /\ new_annotations = <<>>
    /\ gathered = <<>>
    /\ first_finished = 0
    /\ spawned = 0
    /\ maskCalls = 0
    /\ calls = 0
    /\ atCall = Unset
    /\ input = Unset
    /\ observed = Unset


\* ---------------------------------------- SpecMask: one call of mask_to_boundary
InitMask ==
    /\ mask \in Masks
    /\ dilation_ratio \in Ratios
    /\ mpc = "line21"
    /\ dilation = None
    /\ new_mask = None
    /\ new_mask_erode = None
    /\ mask_erode = None
    /\ boundary = None
    /\ PipeIdle
    /\ FileIdle

ComputeDilation ==
    /\ mpc = "line21"
    /\ dilation' = Dilation(mask, dilation_ratio)
    /\ mpc' = "line27"
    /\ UNCHANGED <<mask, dilation_ratio, new_mask, new_mask_erode, mask_erode, boundary>>
    /\ UNCHANGED <<pipeVars, fileVars>>

PadMask ==
    /\ mpc = "line27"
    /\ new_mask' = copyMakeBorder(mask)
    /\ mpc' = "line29"
    /\ UNCHANGED <<mask, dilation_ratio, dilation, new_mask_erode, mask_erode, boundary>>
    /\ UNCHANGED <<pipeVars, fileVars>>

ErodeMask ==
    /\ mpc = "line29"
    /\ new_mask_erode' = erode(new_mask, dilation)
    /\ mpc' = "line30"
    /\ UNCHANGED <<mask, dilation_ratio, dilation, new_mask, mask_erode, boundary>>
    /\ UNCHANGED <<pipeVars, fileVars>>

CropMask ==
    /\ mpc = "line30"
    /\ mask_erode' = Crop(new_mask_erode, Height(mask), Width(mask))
    /\ mpc' = "line32"
    /\ UNCHANGED <<mask, dilation_ratio, dilation, new_mask, new_mask_erode, boundary>>
    /\ UNCHANGED <<pipeVars, fileVars>>

ReturnBoundary ==
    /\ mpc = "line32"
    /\ boundary' = Subtract(mask, mask_erode)
    /\ mpc' = "returned"
    /\ UNCHANGED <<mask, dilation_ratio, dilation, new_mask, new_mask_erode, mask_erode>>
    /\ UNCHANGED <<pipeVars, fileVars>>

NextMask ==
    \/ ComputeDilation
    \/ PadMask
    \/ ErodeMask
    \/ CropMask
    \/ ReturnBoundary

SpecMask == InitMask /\ [][NextMask]_vars

\* ------------------------------------------- Spec: add_boundary_multi_core
Snapshot == [coco |-> coco, spawned |-> spawned, maskCalls |-> maskCalls]

Fresh(segs, ids) ==
    [i \in DOMAIN segs |-> [id |-> ids[i], segmentation |-> segs[i]]]

\* the annotations with the boundary each gets from its own mask
Augmented(annotations) ==
    [i \in DOMAIN annotations |->
        SetItem(annotations[i], "boundary", BoundaryOf(annotations[i], DefaultRatio))]

Dataset(annotations, flag) ==
    [annotations |-> annotations, anns |-> createIndex(annotations), get_boundary |-> flag]

\* A dataset as constructed: its flag is false, or it carries the boundaries
\* of an earlier augmentation and its flag is true.
Init ==
    /\ MaskIdle
    /\ FileIdle
    /\ \E n \in 0..MaxAnns :
        \E segs \in [1..n -> Segmentations] :
            \E augmented \in BOOLEAN :
                /\ augmented => \A i \in 1..n : segs[i] # BadSeg
                /\ LET fresh == Fresh(segs, [i \in 1..n |-> i])
                   IN  coco = Dataset(IF augmented THEN Augmented(fresh) ELSE fresh, augmented)
    /\ input = coco
    /\ hasAnnToMask \in BOOLEAN
    /\ hasCreateIndex \in BOOLEAN
    /\ cpu_num \in 1..MaxCpu
    /\ cpu_count \in 1..MaxCpu
    /\ pc = "idle"
    /\ exc = None
    /\ annotations_split = <<>>
    /\ processes = <<>>
    /\ new_annotations = <<>>
    /\ gathered = <<>>
    /\ first_finished = 0
    /\ spawned = 0
    /\ maskCalls = 0
    /\ calls = 0
    /\ atCall = Unset
    /\ observed = Unset

\* lines 73-76: the call, and the test of the flag; the caller may call
\* again after a call that returned or raised
Call ==
    /\ pc \in {"idle", "skipped", "done", "raised"}
    /\ calls < MaxCalls
    /\ calls' = calls + 1
    /\ atCall' = Snapshot
    /\ pc' = IF FoundExistingBoundaries(coco.get_boundary) THEN "skipped" ELSE "line80"
    /\ exc' = None
    /\ UNCHANGED <<fileVars, maskVars, coco, runVars, spawned, maskCalls, observed, envVars>>

\* lines 80-83
Split ==
    /\ pc = "line80"
    /\ annotations_split' = array_split(coco.annotations, ClampCpu(cpu_num, cpu_count))
    /\ pc' = "line85"
    /\ UNCHANGED <<fileVars, maskVars, coco, exc, processes, new_annotations, gathered, first_finished,
                   spawned, maskCalls, calls, atCall, observed, envVars>>

\* lines 85-86: Pool(processes=cpu_num) starts its worker processes
CreatePool ==
    /\ pc = "line85"
    /\ spawned' = spawned + Len(annotations_split)
    /\ processes' = <<>>
    /\ gathered' = <<>>
    /\ first_finished' = 0
    /\ pc' = "line88"
    /\ UNCHANGED <<fileVars, maskVars, coco, exc, annotations_split, new_annotations,
                   maskCalls, calls, atCall, observed, envVars>>

\* lines 88-91, one iteration: coco.annToMask is looked up, the shard is
\* pickled into the task; after the last one, line 93
Submit ==
    /\ pc = "line88"
    /\ IF ~hasAnnToMask
       THEN /\ pc' = "raised"
            /\ exc' = "annToMask"
            /\ UNCHANGED <<processes, new_annotations>>
       ELSE /\ processes' = Append(processes,
                                   [state |-> "pending",
                                    annotations |-> annotations_split[Len(processes) + 1],
                                    new_annotations |-> <<>>])
            /\ pc' = IF Len(processes) + 1 = Len(annotations_split) THEN "line94" ELSE "line88"
            /\ new_annotations' = <<>>
            /\ exc' = exc
    /\ UNCHANGED <<fileVars, maskVars, coco, annotations_split, gathered, first_finished,
                   spawned, maskCalls, calls, atCall, observed, envVars>>

\* the position in the caller's list of element i of shard k
ShardOffset(k) ==
    LET RECURSIVE off(_)
        off(j) == IF j = 0 THEN 0 ELSE off(j - 1) + Len(annotations_split[j])
    IN  off(k - 1)

\* lines 39-46 in the worker of task k, one annotation; after the last one
\* of the shard, line 48
WorkerStep(k) ==
    /\ k \in DOMAIN processes
    /\ processes[k].state = "pending"
    /\ Len(processes[k].new_annotations) < Len(processes[k].annotations)
    /\ LET i == Len(processes[k].new_annotations) + 1
           ann == processes[k].annotations[i]
       IN  /\ maskCalls' = maskCalls + 1
           /\ IF ann.segmentation = BadSeg
              THEN /\ processes' = [processes EXCEPT ![k].state = "raised"]
                   /\ first_finished' = IF first_finished = 0 THEN k ELSE first_finished
                   /\ coco' = coco
              ELSE /\ processes' =
                        [processes EXCEPT
                            ![k].annotations[i] =
                                SetItem(ann, "boundary", BoundaryOf(ann, DefaultRatio)),
                            ![k].new_annotations =
                                Append(@, SetItem(ann, "boundary", BoundaryOf(ann, DefaultRatio))),
                            ![k].state =
                                IF i = Len(processes[k].annotations) THEN "done" ELSE "pending"]
                   /\ first_finished' =
                        IF i = Len(processes[k].annotations) /\ first_finished = 0
                        THEN k
                        ELSE first_finished
                   /\ coco' = [coco EXCEPT !.annotations =
                                  CallerAfterWorkerWrite(@, ShardOffset(k) + i,
                                                         BoundaryOf(ann, DefaultRatio))]
    /\ UNCHANGED <<fileVars, maskVars, pc, exc, annotations_split, new_annotations, gathered,
                   spawned, calls, atCall, observed, envVars>>

\* line 48 in the worker of task k, when its shard is empty
WorkerReturn(k) ==
    /\ k \in DOMAIN processes
    /\ processes[k].state = "pending"
    /\ Len(processes[k].new_annotations) = Len(processes[k].annotations)
    /\ processes' = [processes EXCEPT ![k].state = "done"]
    /\ first_finished' = IF first_finished = 0 THEN k ELSE first_finished
    /\ UNCHANGED <<fileVars, maskVars, coco, pc, exc, annotations_split, new_annotations, gathered,
                   spawned, maskCalls, calls, atCall, observed, envVars>>

\* lines 94-95, one iteration: p.get() waits for the task, then returns its
\* list or raises what the worker raised
Gather ==
    /\ pc = "line94"
    /\ LET k == NextToGather({gathered[i] : i \in DOMAIN gathered}, processes, Len(gathered))
       IN  /\ k \in DOMAIN processes
           /\ processes[k].state \in {"done", "raised"}
           /\ IF processes[k].state = "raised"
              THEN /\ pc' = "raised"
                   /\ exc' = "worker"
                   /\ UNCHANGED <<new_annotations, gathered>>
              ELSE /\ new_annotations' = new_annotations \o processes[k].new_annotations
                   /\ gathered' = Append(gathered, k)
                   /\ pc' = IF Len(gathered) + 1 = Len(processes) THEN "line97" ELSE "line94"
                   /\ exc' = exc
    /\ UNCHANGED <<fileVars, maskVars, coco, annotations_split, processes, first_finished,
                   spawned, maskCalls, calls, atCall, observed, envVars>>

\* lines 97-98: workers.close(); workers.join()
CloseJoin ==
    /\ pc = "line97"
    /\ pc' = "line100"
    /\ UNCHANGED <<fileVars, maskVars, coco, exc, runVars, spawned, maskCalls, calls, atCall,
                   observed, envVars>>

\* line 100
ReplaceAnnotations ==
    /\ pc = "line100"
    /\ coco' = Line100(coco, new_annotations)
    /\ pc' = "line101"
    /\ UNCHANGED <<fileVars, maskVars, exc, runVars, spawned, maskCalls, calls, atCall,
                   observed, envVars>>

\* line 101
RebuildIndex ==
    /\ pc = "line101"
    /\ IF ~hasCreateIndex
       THEN /\ pc' = "raised"
            /\ exc' = "createIndex"
            /\ coco' = coco
       ELSE /\ coco' = Line101(coco)
            /\ pc' = "line102"
            /\ exc' = exc
    /\ UNCHANGED <<fileVars, maskVars, runVars, spawned, maskCalls, calls, atCall, observed, envVars>>

\* lines 102-103
SetFlag ==
    /\ pc = "line102"
    /\ coco' = Line102(coco)
    /\ pc' = "done"
    /\ UNCHANGED <<fileVars, maskVars, exc, runVars, spawned, maskCalls, calls, atCall,
                   observed, envVars>>

\* another thread of the caller's process reads the dataset
Read ==
    /\ observed # coco
    /\ observed' = coco
    /\ UNCHANGED <<fileVars, maskVars, coco, pc, exc, runVars, spawned, maskCalls, calls, atCall,
                   envVars>>

Next ==
    \/ Call
    \/ Split
    \/ CreatePool
    \/ Submit
    \/ \E k \in 1..MaxCpu : WorkerStep(k)
    \/ \E k \in 1..MaxCpu : WorkerReturn(k)
    \/ Gather
    \/ CloseJoin
    \/ ReplaceAnnotations
    \/ RebuildIndex
    \/ SetFlag
    \/ Read

Spec == Init /\ [][Next]_vars

\* ------------- SpecFile: coco_add_boundaries_and_save_as_annotation_file
\* An annotation file: its annotations (the ids are the file's, and may
\* repeat) and its other top-level keys.
InitFile ==
    /\ MaskIdle
    /\ annotation_file \in [parent : {"dir"}, name : Names]
    /\ stem_addon \in Addons
    /\ \E n \in 0..MaxFileAnns :
        \E segs \in [1..n -> Segmentations] :
            \E ids \in [1..n -> 1..MaxId] :
                input = [annotations |-> Fresh(segs, ids), images |-> "images"]
    /\ files = [f \in {annotation_file} |-> input]
    /\ cpu_count \in 1..MaxCpu
    /\ cpu_num = 16
    /\ fpc = "line110"
    /\ coco = Unset
    /\ coco_json = Unset
    /\ new_annotation_file = Unset
    /\ hasAnnToMask = TRUE
    /\ hasCreateIndex = TRUE
    /\ pc = "unused"
    /\ exc = None
    /\ annotations_split = <<>>
    /\ processes = <<>>
    /\ new_annotations = <<>>
    /\ gathered = <<>>
    /\ first_finished = 0
    /\ spawned = 0
    /\ maskCalls = 0
    /\ calls = 0
    /\ atCall = Unset
    /\ observed = Unset

fileRest == <<maskVars, pc, exc, runVars, spawned, maskCalls, calls, atCall, observed,
              envVars, annotation_file, stem_addon>>

\* lines 110-111
LoadCoco ==
    /\ fpc = "line110"
    /\ coco' = COCO(files[annotation_file])
    /\ fpc' = "line112"
    /\ UNCHANGED <<fileRest, files, coco_json, new_annotation_file>>

\* line 112: add_boundary_multi_core(coco), cpu_num at its default
AddBoundaries ==
    /\ fpc = "line112"
    /\ LET r == add_boundary_multi_core(coco, cpu_num, cpu_count)
       IN  /\ coco' = r.coco
           /\ fpc' = IF r.raised THEN "raised" ELSE "line114"
    /\ UNCHANGED <<fileRest, files, coco_json, new_annotation_file>>

\* lines 114-115
ReadJson ==
    /\ fpc = "line114"
    /\ coco_json' = files[annotation_file]
    /\ fpc' = "line118"
    /\ UNCHANGED <<fileRest, coco, files, new_annotation_file>>

\* lines 118-121
ReplaceJsonAnnotations ==
    /\ fpc = "line118"
    /\ coco_json' = [coco_json EXCEPT !.annotations = AnnsB(coco)]
    /\ coco' = AfterDecode(coco)
    /\ fpc' = "line123"
    /\ UNCHANGED <<fileRest, files, new_annotation_file>>

\* lines 123-127: the file is opened for writing (created or truncated) and
\* the document dumped into it
WriteFile ==
    /\ fpc = "line123"
    /\ new_annotation_file' = NewAnnotationFile(annotation_file, stem_addon)
    /\ files' = [f \in DOMAIN files \cup {new_annotation_file'} |->
                    IF f = new_annotation_file' THEN coco_json ELSE files[f]]
    /\ fpc' = "done"
    /\ UNCHANGED <<fileRest, coco, coco_json>>

NextFile ==
    \/ LoadCoco
    \/ AddBoundaries
    \/ ReadJson
    \/ ReplaceJsonAnnotations
    \/ WriteFile

SpecFile == InitFile /\ [][NextFile]_vars

\* ------------------------------------------------------------ properties
RECURSIVE SumLen(_)
SumLen(seqs) == IF seqs = <<>> THEN 0 ELSE Len(Head(seqs)) + SumLen(Tail(seqs))

AllGood(annotations) == \A i \in DOMAIN annotations : annotations[i].segmentation # BadSeg

\* ann carries a boundary, and it is the boundary of ann's own mask
HasOwnBoundary(ann) ==
    /\ HasKey(ann, "boundary")
    /\ ann.segmentation # BadSeg
    /\ ann.boundary = BoundaryOf(ann, DefaultRatio)

AllHaveOwnBoundary(annotations) ==
    \A i \in DOMAIN annotations : HasOwnBoundary(annotations[i])

\* b is a with nothing changed but the key `boundary` added (or overwritten)
OnlyBoundaryAdded(a, b) ==
    /\ DOMAIN b = DOMAIN a \cup {"boundary"}
    /\ \A f \in DOMAIN a \ {"boundary"} : b[f] = a[f]

\* C1: a call on a dataset whose flag is true returns at once: it starts no
\* worker, calls ann_to_mask not once, and annotations, index and flag are what
\* they were when the call began.
C1_SkipIsNoOp ==
    (calls > 0 /\ atCall.coco.get_boundary = TRUE) =>
        /\ pc = "skipped"
        /\ coco = atCall.coco
        /\ spawned = atCall.spawned
        /\ maskCalls = atCall.maskCalls

\* a second call on a dataset of two or more annotations the first call augmented
C1_Witness ==
    /\ pc = "skipped"
    /\ calls = 2
    /\ Len(coco.annotations) >= 2
    /\ maskCalls >= 2
    /\ coco.get_boundary = TRUE
    /\ input.get_boundary = FALSE

\* C2: once a worker has raised, and when the call has failed with the worker's
\* exception, the dataset is what it was when the call began (same annotation
\* records, same index) and the flag is false, whatever the other shards did.
C2_WorkerFailureLeavesDataset ==
    /\ (pc = "raised" /\ exc = "worker") =>
            /\ coco = atCall.coco
            /\ coco.get_boundary = FALSE
            /\ \A i \in DOMAIN coco.annotations : ~HasKey(coco.annotations[i], "boundary")
    /\ (calls > 0 /\ \E k \in DOMAIN processes : processes[k].state = "raised") =>
            coco = atCall.coco

\* the call failed on one shard after another shard had returned augmented annotations
C2_Witness ==
    /\ pc = "raised"
    /\ exc = "worker"
    /\ \E k \in DOMAIN processes :
        /\ processes[k].state = "done"
        /\ Len(processes[k].new_annotations) >= 1
        /\ HasKey(processes[k].new_annotations[1], "boundary")

\* C3: when every shard has been gathered, new_annotations has the length of
\* the input and its i-th element is the i-th input annotation with only the
\* boundary added, in every order of the workers' finishing.
C3_OrderPreserved ==
    pc \in {"line97", "line100"} =>
        /\ Len(new_annotations) = Len(atCall.coco.annotations)
        /\ \A i \in DOMAIN new_annotations :
            /\ OnlyBoundaryAdded(atCall.coco.annotations[i], new_annotations[i])
            /\ HasOwnBoundary(new_annotations[i])

\* three annotations on two or three workers, the worker of shard 0 not the
\* first to finish
C3_Witness ==
    /\ pc = "line97"
    /\ Len(processes) >= 2
    /\ Len(atCall.coco.annotations) = 3
    /\ first_finished > 1

\* C4: the shards of line 83 are min(cpu_num, cpu_count) contiguous pieces
\* of the input: concatenated in order they are the input, their sizes sum to
\* N, every annotation is in exactly one of them, and the first N mod W have
\* floor(N/W)+1 elements, the others floor(N/W).
C4_PartitionComplete ==
    pc \in {"line85", "line88", "line94", "line97", "line100"} =>
        LET src == atCall.coco.annotations
            N == Len(src)
            W == IF cpu_num < cpu_count THEN cpu_num ELSE cpu_count
        IN  /\ Len(annotations_split) = W
            /\ Concat(annotations_split) = src
            /\ SumLen(annotations_split) = N
            /\ \A k \in 1..W :
                Len(annotations_split[k]) = (N \div W) + (IF k <= N % W THEN 1 ELSE 0)
            /\ \A i \in 1..N :
                Cardinality({kj \in (1..W) \X (1..N) :
                                /\ kj[2] <= Len(annotations_split[kj[1]])
                                /\ annotations_split[kj[1]][kj[2]] = src[i]}) = 1

\* three annotations, three workers asked for, two cpus: shards of 2 and 1
C4_Witness ==
    /\ pc = "line85"
    /\ Len(atCall.coco.annotations) = 3
    /\ cpu_num = 3
    /\ cpu_count = 2
    /\ Len(annotations_split) = 2
    /\ Len(annotations_split[1]) = 2

\* C5 as claimed, for a dataset that has its capabilities and at least one
\* annotation: in every state the flag is true iff every annotation carries
\* the boundary of its own mask.
C5_FlagIffBoundaries ==
    (hasAnnToMask /\ hasCreateIndex /\ Len(coco.annotations) > 0) =>
        (coco.get_boundary = TRUE <=> AllHaveOwnBoundary(coco.annotations))

\* C5 as amended: in every state the flag is true only if every annotation
\* carries the boundary of its own mask; when a call has returned the flag
\* is true, and when it failed with a worker's exception the flag is false
\* and, in a non-empty collection, no annotation carries a boundary.
C5_FlagImpliesBoundaries ==
    /\ coco.get_boundary = TRUE => AllHaveOwnBoundary(coco.annotations)
    /\ pc \in {"done", "skipped"} => coco.get_boundary = TRUE
    /\ (pc = "raised" /\ exc = "worker") =>
            /\ coco.get_boundary = FALSE
            /\ \A i \in DOMAIN coco.annotations : ~HasOwnBoundary(coco.annotations[i])

\* a call has augmented a dataset of two or more annotations and set the flag
C5_Witness ==
    /\ pc = "done"
    /\ coco.get_boundary = TRUE
    /\ Len(coco.annotations) >= 2
    /\ input.get_boundary = FALSE

WholeStatesOf(d) ==
    IF AllGood(d.annotations)
    THEN {d, Dataset(Augmented(d.annotations), TRUE)}
    ELSE {d}

\* a is one of the two annotation collections of WholeStatesOf(input)
OldOrNewAnnotations(a) ==
    \/ a = input.annotations
    \/ AllGood(input.annotations) /\ a = Augmented(input.annotations)

\* C6 as claimed, for a dataset that has its capabilities: what a concurrent
\* reader sees is the original dataset or the fully augmented one.
C6_ReaderSeesOldOrNew ==
    (hasAnnToMask /\ hasCreateIndex /\ observed # Unset) => observed \in WholeStatesOf(input)

\* C6 as amended: a reader sees the old or the new annotation collection
\* whole, never a collection of old and new records; it sees a rebuilt index
\* only with the new collection, and a true flag only with the new collection
\* and the index rebuilt over it.  (New annotations with the old index, and
\* both new with the flag false, can be seen.)
C6_ReaderSeesNoTornCollection ==
    observed # Unset =>
        /\ OldOrNewAnnotations(observed.annotations)
        /\ observed.anns # input.anns =>
                /\ observed.annotations # input.annotations
                /\ observed.anns = createIndex(observed.annotations)
        /\ observed.get_boundary = TRUE =>
                /\ observed.anns = createIndex(observed.annotations)
                /\ AllHaveOwnBoundary(observed.annotations)

\* the reader saw the new annotations with the index of the old ones
C6_Witness ==
    /\ observed # Unset
    /\ hasCreateIndex
    /\ Len(observed.annotations) >= 2
    /\ AllHaveOwnBoundary(observed.annotations)
    /\ observed.anns = input.anns
    /\ observed.anns # createIndex(observed.annotations)
    /\ observed.get_boundary = FALSE

\* C7 as claimed: a call on a dataset (flag false) without annToMask or
\* without createIndex starts no worker process and writes no field of the
\* dataset.
C7_MissingCapabilityFailsEarly ==
    (calls > 0 /\ (~hasAnnToMask \/ ~hasCreateIndex) /\ atCall.coco.get_boundary = FALSE) =>
        /\ spawned = atCall.spawned
        /\ coco = atCall.coco

\* C8 as claimed: the file written is stem + stem_addon + suffix in the
\* directory of the input, it is another path than the input, and the input
\* file holds what it held.
C8_InputNeverOverwritten ==
    fpc = "done" =>
        /\ new_annotation_file.parent = annotation_file.parent
        /\ new_annotation_file.name =
                PathStem(annotation_file.name) \o stem_addon \o PathSuffix(annotation_file.name)
        /\ new_annotation_file # annotation_file
        /\ files[annotation_file] = input

\* C9 as claimed, when the file written is not the input file: the
\* annotations written are the dataset's augmented annotations, as many and in
\* the order of the input file's, each with a boundary whose counts is a str;
\* the other keys are the input's.
C9_WrittenAnnotationsAreDataset ==
    (fpc = "done" /\ new_annotation_file # annotation_file) =>
        LET out == files[new_annotation_file]
        IN  /\ out.annotations = coco.annotations
            /\ Len(out.annotations) = Len(input.annotations)
            /\ \A i \in DOMAIN out.annotations :
                /\ OnlyBoundaryAdded(input.annotations[i], out.annotations[i])
                /\ out.annotations[i].boundary.counts.type = "str"
            /\ out.images = input.images

IsArrayOfShape(a, h, w) ==
    /\ Len(a) = h
    /\ \A i \in 1..h : Len(a[i]) = w

\* C10: for a mask of shape (h, w) and a dilation >= 1 the array returned has
\* shape (h, w): the eroded padded array has shape (h+2, w+2), the crop of
\* line 30 takes its rows 1..h and columns 1..w (0-based), which undoes the
\* padding of line 27, and pixel (i, j) of the result is pixel (i, j) of the
\* mask minus pixel (i+1, j+1) of the eroded padded array.
C10_ShapePreserved ==
    LET h == Height(mask)
        w == Width(mask)
    IN  /\ mpc \in {"line29", "line30", "line32", "returned"} =>
                /\ dilation >= 1
                /\ IsArrayOfShape(new_mask, h + 2, w + 2)
                /\ Crop(new_mask, h, w) = mask
        /\ mpc \in {"line30", "line32", "returned"} =>
                IsArrayOfShape(new_mask_erode, h + 2, w + 2)
        /\ mpc \in {"line32", "returned"} =>
                /\ IsArrayOfShape(mask_erode, h, w)
                /\ \A i \in 1..h : \A j \in 1..w :
                        mask_erode[i][j] = new_mask_erode[i + 1][j + 1]
        /\ mpc = "returned" =>
                /\ IsArrayOfShape(boundary, h, w)
                /\ Shape(boundary) = Shape(mask)
                /\ \A i \in 1..h : \A j \in 1..w :
                        boundary[i][j] = Uint8Sub(mask[i][j], new_mask_erode[i + 1][j + 1])

\* a 2x3 mask eroded twice, with a boundary pixel in its last row and column
C10_Witness ==
    /\ mpc = "returned"
    /\ Shape(mask) = <<2, 3>>
    /\ dilation = 2
    /\ boundary[2][3] = 1

\* ------------------------------------------- properties of mask_to_boundary
\* position (a, b) lies outside the image of m or is a background pixel of it
NotForeground(m, a, b) ==
    \/ a < 1
    \/ a > Height(m)
    \/ b < 1
    \/ b > Width(m)
    \/ m[a][b] = 0

\* some position within Chebyshev distance d of (i, j) is not foreground
NearEdge(m, i, j, d) ==
    \E a \in (i - d)..(i + d) : \E b \in (j - d)..(j + d) : NotForeground(m, a, b)

Ring(h, w) ==
    [i \in 1..h |->
        [j \in 1..w |-> IF i = 1 \/ i = h \/ j = 1 \/ j = w THEN 1 ELSE 0]]

\* C11: with d the dilation computed (d >= 1), pixel (i, j) of the array
\* returned is 1 iff it is foreground in the mask and some position within
\* Chebyshev distance d of it is background or outside the image, and is 0
\* otherwise; the 10 x 10 all-foreground mask with d = 1 gives the perimeter
\* ring, and an all-zero mask gives an all-zero array for every d.
C11_BoundaryIsNearEdgeForeground ==
    mpc = "returned" =>
        /\ dilation >= 1
        /\ \A i \in 1..Height(mask) : \A j \in 1..Width(mask) :
                boundary[i][j] =
                    IF mask[i][j] = 1 /\ NearEdge(mask, i, j, dilation) THEN 1 ELSE 0
        /\ (mask = Full(10, 10) /\ dilation = 1) => boundary = Ring(10, 10)
        /\ mask = Zeros(Height(mask), Width(mask)) => boundary = mask

\* the 10 x 10 all-foreground mask eroded once: the ring, the interior 0
C11_Witness ==
    /\ mpc = "returned"
    /\ mask = Full(10, 10)
    /\ dilation = 1
    /\ boundary[1][1] = 1
    /\ boundary[10][5] = 1
    /\ boundary[2][2] = 0
    /\ boundary[9][9] = 0

\* k is an integer nearest to num / RatioDen * sqrt(h^2 + w^2), for num >= 0:
\* (2k - 1) / 2 <= the product <= (2k + 1) / 2, compared by their squares
NearestTo(k, num, h, w) ==
    /\ k >= 0
    /\ k = 0 \/ (2 * k - 1) * (2 * k - 1) * RatioDen * RatioDen
                    <= 4 * num * num * DiagSq(h, w)
    /\ 4 * num * num * DiagSq(h, w)
            <= (2 * k + 1) * (2 * k + 1) * RatioDen * RatioDen

\* C12: the iteration count of line 29 is an integer >= 1 and lines 23-25
\* raise nothing: when round(dilation_ratio * sqrt(h^2 + w^2)) is below 1
\* (a ratio that is zero, negative, or whose product is below one half) the
\* count is exactly 1, otherwise it is the rounded value, an integer nearest
\* to the product.
C12_DilationAtLeastOne ==
    LET h == Height(mask)
        w == Width(mask)
        r == Rounded(mask, dilation_ratio)
    IN  /\ mpc = "line21" => ENABLED ComputeDilation
        /\ mpc \in {"line27", "line29", "line30", "line32", "returned"} =>
                /\ dilation \in Nat
                /\ dilation >= 1
                /\ r < 1 => dilation = 1
                /\ r >= 1 => dilation = r /\ NearestTo(dilation, dilation_ratio, h, w)
                /\ dilation_ratio <= 0 => dilation = 1
                /\ (dilation_ratio >= 0
                        /\ 4 * dilation_ratio * dilation_ratio * DiagSq(h, w)
                                < RatioDen * RatioDen)
                    => dilation = 1
                /\ dilation > 1 => dilation_ratio > 0
                /\ dilation_ratio >= 0 =>
                        \/ NearestTo(dilation, dilation_ratio, h, w)
                        \/ dilation = 1 /\ NearestTo(0, dilation_ratio, h, w)
                /\ dilation_ratio < 0 =>
                        NearestTo(0 - r, 0 - dilation_ratio, h, w)

\* a negative ratio whose rounded product is below zero, clamped to 1
C12_Witness ==
    /\ mpc = "line27"
    /\ dilation_ratio < 0
    /\ Rounded(mask, dilation_ratio) < 0
    /\ dilation = 1

IsEmpty(m) == \A i \in 1..Height(m) : \A j \in 1..Width(m) : m[i][j] = 0

\* C16 as stated: the array returned is all-zero iff the mask is all-zero or
\* the erosion with the computed iteration count removes the entire mask
\* (the cropped eroded mask is all-zero).
C16_EmptyIffEmptyOrFullyEroded ==
    mpc = "returned" =>
        (IsEmpty(boundary) <=> (IsEmpty(mask) \/ IsEmpty(mask_erode)))

\* C16 amended: the array returned is all-zero iff the mask is all-zero;
\* when the erosion removes the entire mask the array returned is the mask
\* itself, and it is all-zero iff the erosion removes nothing of the mask.
C16_EmptyIffMaskEmpty ==
    mpc = "returned" =>
        /\ IsEmpty(boundary) <=> IsEmpty(mask)
        /\ IsEmpty(mask_erode) => boundary = mask
        /\ IsEmpty(boundary) <=> mask_erode = mask

\* a mask with foreground that the erosion removes entirely: the array
\* returned is the mask, not an empty array
C16_Witness ==
    /\ mpc = "returned"
    /\ ~IsEmpty(mask)
    /\ IsEmpty(mask_erode)
    /\ boundary = mask
    /\ ~IsEmpty(boundary)

\* C17: for a mask with values in {0, 1} and a dilation >= 1 the cropped
\* eroded mask is pixelwise <= the mask, so mask - mask_erode of line 32 does
\* not wrap around in uint8: every pixel returned is the plain difference and
\* is 0 or 1.
C17_ErodedBelowMask ==
    /\ mpc \in {"line32", "returned"} =>
            /\ dilation >= 1
            /\ \A i \in 1..Height(mask) : \A j \in 1..Width(mask) :
                    /\ mask_erode[i][j] \in {0, 1}
                    /\ mask_erode[i][j] <= mask[i][j]
    /\ mpc = "returned" =>
            \A i \in 1..Height(mask) : \A j \in 1..Width(mask) :
                /\ boundary[i][j] = mask[i][j] - mask_erode[i][j]
                /\ boundary[i][j] \in {0, 1}

\* a mask with a background pixel, a pixel that survives the erosion and a
\* pixel that does not
C17_Witness ==
    /\ mpc = "returned"
    /\ \E i \in 1..Height(mask) : \E j \in 1..Width(mask) : mask[i][j] = 0
    /\ \E i \in 1..Height(mask) : \E j \in 1..Width(mask) : mask_erode[i][j] = 1
    /\ \E i \in 1..Height(mask) : \E j \in 1..Width(mask) : boundary[i][j] = 1

\* the erosion that takes the exterior of the image as background at every
\* iteration: pad, one pass, crop, d times
RECURSIVE Repadded(_, _)
Repadded(m, d) ==
    IF d <= 0
    THEN m
    ELSE Repadded(Crop(Erode3(copyMakeBorder(m)), Height(m), Width(m)), d - 1)

\* the outermost rows and columns of a are background
BorderIsBackground(a) ==
    /\ \A j \in 1..Width(a) : a[1][j] = 0 /\ a[Height(a)][j] = 0
    /\ \A i \in 1..Height(a) : a[i][1] = 0 /\ a[i][Width(a)] = 0

\* C18: for every mask and iteration count d >= 1, d passes of the 3x3
\* erosion over the once-padded mask, cropped, equal the erosion that re-pads
\* before each of the d passes; the padded border is background after each
\* number of passes 0..d.
C18_OncePaddedIsRepadded ==
    mpc \in {"line32", "returned"} =>
        /\ dilation >= 1
        /\ mask_erode = Repadded(mask, dilation)
        /\ \A k \in 0..dilation : BorderIsBackground(erode(new_mask, k))
        /\ BorderIsBackground(new_mask_erode)

\* several passes over a mask of which foreground at the image border is
\* removed by the first pass and foreground survives all passes
C18_Witness ==
    /\ mpc = "returned"
    /\ dilation >= 2
    /\ mask[1][1] = 1
    /\ ~IsEmpty(mask_erode)
    /\ Repadded(mask, 1) # Repadded(mask, dilation)

\* ------------------------------------ properties of the parallel pipeline
\* one sequential pass of lines 36-48 over the annotations the call began with
Sequential ==
    augment_annotations_with_boundary_single_core(atCall.coco.annotations, DefaultRatio)

\* C13: for every annotation sequence and every worker count W, what the
\* workers return and the gather of lines 93-95 concatenates is what one pass
\* of augment_annotations_with_boundary_single_core over the whole sequence
\* returns, element for element in the same order, in every interleaving of
\* the workers; the call fails with a worker's exception only if the
\* sequential pass raises.
C13_ParallelIsSequential ==
    /\ \A k \in DOMAIN processes :
            LET done == Len(processes[k].new_annotations)
                part == augment_annotations_with_boundary_single_core(
                            SubSeq(annotations_split[k], 1, done), DefaultRatio)
            IN  /\ ~part.raised
                /\ processes[k].new_annotations = part.new_annotations
    /\ pc \in {"line97", "line100", "line101", "line102", "done"} =>
            /\ ~Sequential.raised
            /\ new_annotations = Sequential.new_annotations
    /\ pc \in {"line101", "line102", "done"} =>
            coco.annotations = Sequential.new_annotations
    /\ (pc = "raised" /\ exc = "worker") => Sequential.raised

\* three annotations on two or three workers, the worker of shard 0 not the
\* first to finish, all shards gathered
C13_Witness ==
    /\ pc = "line100"
    /\ Len(processes) >= 2
    /\ Len(atCall.coco.annotations) = 3
    /\ first_finished > 1
    /\ new_annotations = Sequential.new_annotations
    /\ Len(new_annotations) = 3

\* the results of all shards have been gathered
AllGathered ==
    /\ Len(processes) = Len(annotations_split)
    /\ Len(gathered) = Len(processes)
    /\ \A k \in DOMAIN processes : processes[k].state = "done"

\* a step that changes the dataset is the write of line 100, 101 or 102,
\* taken after the gather and in this order; the flag is true after a step
\* only with the index built over the annotations the dataset then holds
C14_Step ==
    /\ coco' # coco =>
            /\ AllGathered
            /\ \/ /\ pc = "line100"
                  /\ pc' = "line101"
                  /\ coco = atCall.coco
                  /\ coco'.annotations = new_annotations
                  /\ coco'.anns = coco.anns
                  /\ coco'.get_boundary = FALSE
               \/ /\ pc = "line101"
                  /\ pc' = "line102"
                  /\ coco.annotations = new_annotations
                  /\ coco'.annotations = coco.annotations
                  /\ coco'.anns = createIndex(coco.annotations)
                  /\ coco'.get_boundary = FALSE
               \/ /\ pc = "line102"
                  /\ pc' = "done"
                  /\ coco.annotations = new_annotations
                  /\ coco.anns = createIndex(new_annotations)
                  /\ coco.get_boundary = FALSE
                  /\ coco'.annotations = coco.annotations
                  /\ coco'.anns = coco.anns
                  /\ coco'.get_boundary = TRUE
    /\ coco'.get_boundary = TRUE => coco'.anns = createIndex(coco'.annotations)
    /\ pc' \in {"line80", "line85", "line88", "line94", "line97"} => coco' = atCall'.coco

\* C14: in every execution no step writes the dataset before the results of
\* all shards are gathered; the writes are then line 100 (annotations), line
\* 101 (index), line 102 (flag) in this order, and the flag is never true
\* while the index is built over other annotations than the dataset holds.
C14_WritesAfterGatherInOrder == [][C14_Step]_vars

\* a call on three annotations and several workers that made all three writes
C14_Witness ==
    /\ pc = "done"
    /\ AllGathered
    /\ Len(processes) >= 2
    /\ Len(atCall.coco.annotations) = 3
    /\ atCall.coco.get_boundary = FALSE
    /\ coco.annotations = new_annotations
    /\ coco.annotations # atCall.coco.annotations
    /\ coco.anns = createIndex(new_annotations)
    /\ coco.get_boundary = TRUE

\* ------------------------------------------- the pipeline with its scheduling
\* The caller's thread runs on until the call returns or raises (p.get()
\* waits for its task), and every worker process that has a task runs it to
\* its end.  Nothing makes the caller call, and nothing makes a reader read.
Fairness ==
    /\ WF_vars(Split)
    /\ WF_vars(CreatePool)
    /\ WF_vars(Submit)
    /\ WF_vars(Gather)
    /\ WF_vars(CloseJoin)
    /\ WF_vars(ReplaceAnnotations)
    /\ WF_vars(RebuildIndex)
    /\ WF_vars(SetFlag)
    /\ \A k \in 1..MaxCpu : WF_vars(WorkerStep(k))
    /\ \A k \in 1..MaxCpu : WF_vars(WorkerReturn(k))

\* the dataset has the capabilities the call looks up
HasCapabilities == hasAnnToMask /\ hasCreateIndex

\* the calls on a dataset that has its capabilities, no reader beside them
InitLive == Init /\ HasCapabilities

NextLive ==
    \/ Call
    \/ Split
    \/ CreatePool
    \/ Submit
    \/ \E k \in 1..MaxCpu : WorkerStep(k)
    \/ \E k \in 1..MaxCpu : WorkerReturn(k)
    \/ Gather
    \/ CloseJoin
    \/ ReplaceAnnotations
    \/ RebuildIndex
    \/ SetFlag

SpecLive == InitLive /\ [][NextLive]_vars /\ Fairness

\* the shard of lowest index whose worker raises on the annotations the call
\* began with (0 if none does)
FirstFailingShard ==
    LET shards == array_split(atCall.coco.annotations, ClampCpu(cpu_num, cpu_count))
        failing == {k \in DOMAIN shards : ~AllGood(shards[k])}
    IN  IF failing = {} THEN 0 ELSE SetMin(failing)

\* how a call that began with the flag false has ended
C15_Outcome ==
    /\ pc = "done" =>
            /\ coco.get_boundary = TRUE
            /\ \A k \in DOMAIN processes : processes[k].state = "done"
            /\ AllGood(atCall.coco.annotations)
    /\ (pc = "raised" /\ exc = "worker") =>
            /\ coco.get_boundary = FALSE
            /\ ~AllGood(atCall.coco.annotations)
            /\ Len(gathered) + 1 = FirstFailingShard
            /\ processes[Len(gathered) + 1].state = "raised"
            /\ \A i \in DOMAIN gathered : gathered[i] = i /\ processes[i].state = "done"
    /\ (pc = "raised" /\ HasCapabilities) => exc = "worker"
    /\ pc \in {"line94", "line97", "line100", "line101", "line102", "done", "raised"} =>
            /\ spawned = atCall.spawned + Len(annotations_split)
            /\ Len(processes) <= Len(annotations_split)
            /\ \A k \in DOMAIN processes :
                    /\ Len(processes[k].annotations) = Len(annotations_split[k])
                    /\ Len(processes[k].new_annotations) <= Len(annotations_split[k])

\* C15: with every worker running its shard to the end, a call on a dataset
\* that has its capabilities and whose flag is false terminates: if no worker
\* raises (every annotation has a mask) it returns with the flag true,
\* otherwise it raises the worker's exception with the flag false; the
\* exception surfaced is the one of the first failing shard k, after the
\* results of the shards before k were gathered in order; the pool is
\* created once and each shard is submitted once, a shard that failed not
\* again.
C15_CallTerminates ==
    /\ []C15_Outcome
    /\ (pc = "line80" /\ HasCapabilities)
            ~> \/ /\ pc = "done"
                  /\ coco.get_boundary = TRUE
                  /\ AllGood(atCall.coco.annotations)
               \/ /\ pc = "raised"
                  /\ exc = "worker"
                  /\ coco.get_boundary = FALSE
                  /\ ~AllGood(atCall.coco.annotations)

\* a call that failed on its second shard after gathering the first
C15_Witness ==
    /\ pc = "raised"
    /\ exc = "worker"
    /\ HasCapabilities
    /\ Len(processes) >= 2
    /\ gathered = <<1>>
    /\ processes[2].state = "raised"
    /\ coco.get_boundary = FALSE

====
